---- MODULE Spec2Model ----
(***************************************************************************)
(* Publication scheduling of backend/app: the task state machine of        *)
(* core/task_scheduler.py (TaskScheduler), the cancel and update handlers  *)
(* of api/tasks.py, and the rate limiter and retry sweep they use.         *)
(*                                                                         *)
(* Every coroutine is cut at its awaits that touch the task table: the     *)
(* row read of session.get and the row write of session.commit are         *)
(* separate steps, and each coroutine works on its own ORM instance of the *)
(* row (one session per call), so a coroutine can act on a stale copy.     *)
(***************************************************************************)
EXTENDS Integers, Sequences, FiniteSets, Bags, TLC

\* ---------------------------------------------------------------- bounds
\* rows of publish_tasks under Spec
MaxTasks == 1
\* rows of publish_tasks under SpecQuota
MaxQuotaTasks == 2
\* rows of publish_tasks under SpecRetry
MaxRetryRows == 2
\* _execute_task calls in progress at once
MaxExecs == 2
\* steps of the clock
MaxTick == 2
\* SSE clients that connect to the event bus under SpecBus
MaxClients == 2
\* calls of EventBus.publish under SpecBus
MaxPublished == 258
\* a client connects while at most this many events have been published
MaxSubscribeAt == 1
\* events a client takes from its queue
MaxReceived == 2
\* rows of publish_tasks drawn under SpecGate
MaxGateRows == 5
\* largest retry_count handed to _calculate_next_retry_time under SpecBackoff
MaxRetryArg == 10
\* rows of publish_tasks under SpecBatch
MaxBatchRows == 3
\* rows of publish_tasks drawn under SpecSweep
MaxSweepRows == 2

\* ------------------------------------------------------ program constants
RETRY_BASE_DELAY_SECONDS == 60
RETRY_MAX_DELAY_SECONDS == 30 * 60
RETRY_JITTER_MAX_SECONDS == 30
DAILY_PUBLISH_LIMIT == 5
MIN_PUBLISH_INTERVAL == 300
ACTIVE_TIME_START == 8
ACTIVE_TIME_END == 23
MAX_RETRY_COUNT == 3
\* api/events.py: asyncio.Queue(maxsize=256)
QUEUE_MAXSIZE == 256

\* ------------------------------------------------------------------ time
\* Wall-clock instants the model samples, in seconds since midnight of day 0:
\* 07:55, 08:00, 08:05, 08:10, 08:15, 23:00, then 08:00 of day 1.
Clock == <<28500, 28800, 29100, 29400, 29700, 82800, 115200>>

\* A column or attribute holding None.
NoTime == 0 - 1

Hour(t) == (t % 86400) \div 3600
DayStart(t) == t - (t % 86400)

\* The account store: one account, whose daily_limit column is 1. The gate
\* specification has a second account, with the column's default of 5.
Accounts == {1}
AccountDailyLimit(a) == IF a = 1 THEN 1 ELSE 5

Statuses == {"pending", "running", "success", "failed", "cancelled"}

VARIABLES
  tick,        \* index of the current instant in Clock
  tasks,       \* publish_tasks table: row id = index
  accounts,    \* accounts table: account id -> "active" | "inactive" | "missing"
  jobs,        \* APScheduler date jobs: set of [id, task_id, run_date]
  execs,       \* bag of the _execute_task calls in progress, each with its own ORM
               \* instance of the row
  sweep,       \* the _process_pending_tasks job: [pc, todo]
  api,         \* the cancel_task handler of api/tasks.py in flight: [op, task_id]
  out,         \* what the last step gave out: the events handed to event_bus.publish,
               \* the HTTP response or job run that ended, the exception it ended with
  bus,         \* the EventBus of api/events.py: [subscribers, queues, published, warnings]
  clients,     \* the SSE generators: client -> [pc, last, received, yielded]
  call         \* a direct call of a function that touches no table: [fn, args, result]

vars == <<tick, tasks, accounts, jobs, execs, sweep, api, out, bus, clients, call>>

\* No direct call was made.
NoCall == [fn |-> "none", args |-> <<>>, result |-> <<>>]

Now == Clock[tick + 1]

TaskIds == DOMAIN tasks

\* datetime.utcnow of the column default, on a host whose local time is UTC.
UtcNow(t) == t

NewTask(account_id, scheduled_at, t) ==
  [account_id |-> account_id, status |-> "pending", scheduled_at |-> scheduled_at,
   retry_count |-> 0, error_message |-> "", created_at |-> UtcNow(t)]

Event(type, task_id, status) == [type |-> type, task_id |-> task_id, status |-> status]

NoResponse == [op |-> "none", task_id |-> 0, code |-> 0]
Response(op, task_id, code) == [op |-> op, task_id |-> task_id, code |-> code]
JobRun(op) == [op |-> op, task_id |-> 0, code |-> 0]
Out(events, response, error) == [events |-> events, response |-> response, error |-> error]
Silent == Out(<<>>, NoResponse, "")

\* ------------------------------------------------------------ rate limiter
SetMax(S) == CHOOSE x \in S : \A y \in S : y <= x

InActiveWindow(t) == ACTIVE_TIME_START <= Hour(t) /\ Hour(t) < ACTIVE_TIME_END

TodayCount(db, account_id, t) ==
  Cardinality({i \in DOMAIN db : /\ db[i].account_id = account_id
                                 /\ db[i].status = "success"
                                 /\ db[i].created_at >= DayStart(t)})

LastPublish(db, account_id) ==
  LET S == {i \in DOMAIN db : /\ db[i].account_id = account_id
                              /\ db[i].status \in {"success", "running"}}
  IN IF S = {} THEN NoTime ELSE SetMax({db[i].created_at : i \in S})

check_rate_limit(db, accs, account_id, t) ==
  IF ~InActiveWindow(t) THEN [allowed |-> FALSE, reason |-> "window"]
  ELSE IF accs[account_id] = "missing" THEN [allowed |-> FALSE, reason |-> "no_account"]
  ELSE LET daily_limit == IF AccountDailyLimit(account_id) # 0
                          THEN AccountDailyLimit(account_id) ELSE DAILY_PUBLISH_LIMIT
           today_count == TodayCount(db, account_id, t)
           last_publish == LastPublish(db, account_id)
       IN IF today_count >= daily_limit THEN [allowed |-> FALSE, reason |-> "quota"]
          ELSE IF last_publish # NoTime /\ (t - last_publish) < MIN_PUBLISH_INTERVAL
               THEN [allowed |-> FALSE, reason |-> "spacing"]
               ELSE [allowed |-> TRUE, reason |-> "OK"]

\* ------------------------------------------------------------ event bus
\* The SSE clients; a client's asyncio.Queue is named by the client.
Clients == 1..MaxClients

\* EventBus.__init__: no subscriber. No SSE client is connected while the scheduler
\* specifications run, so event_bus.publish has no queue to put a message in.
NoSubscribers ==
  [subscribers |-> <<>>, queues |-> [c \in Clients |-> <<>>],
   published |-> 0, warnings |-> 0]

\* A client that has not called GET /events/stream.
NotConnected == [pc |-> "new", last |-> 0, received |-> 0, yielded |-> "none"]

\* ------------------------------------------------------------------ Init
Init ==
  /\ tick = 0
  /\ tasks = <<>>
  /\ accounts = [a \in Accounts |-> "active"]
  /\ jobs = {}
  /\ execs = EmptyBag
  /\ sweep = [pc |-> "idle", todo |-> <<>>]
  /\ api = [op |-> "idle", task_id |-> 0]
  /\ out = Silent
  /\ bus = NoSubscribers
  /\ clients = [c \in Clients |-> NotConnected]
  /\ call = NoCall


\* ------------------------------------------------------- trigger service
\* scheduler.add_job(..., id=f"{prefix}{task_id}", replace_existing=True)
add_job(js, prefix, task_id, run_date) ==
  {j \in js : ~(j.id = prefix /\ j.task_id = task_id)}
    \cup {[id |-> prefix, task_id |-> task_id, run_date |-> run_date]}

JobPrefixes == {"immediate_task", "scheduled_task", "batch_task", "delayed_task", "retry_task"}

\* TaskScheduler.cancel_task: remove_job for every prefix, errors ignored.
remove_jobs(js, task_id) == {j \in js : ~(j.id \in JobPrefixes /\ j.task_id = task_id)}

\* A call of _execute_task(task_id): where it stands, the attributes of its instance
\* of the row, and the publish_status of the PublishRecord it inserted.
NewExec(task_id, origin) ==
  [task_id |-> task_id, origin |-> origin, pc |-> "get", retry_count |-> 0]

Spawn(x) == execs (+) SetToBag({x})
Step(x, y) == (execs (-) SetToBag({x})) (+) SetToBag({y})
Return(x) == execs (-) SetToBag({x})
\* An executor that runs one _execute_task call at a time.
CanSpawnAlone == BagCardinality(execs) < 1
CanSpawn == BagCardinality(execs) < MaxExecs

\* ------------------------------------------------------------- creation
\* _validate_account of api/publish.py: the account exists, is active (and logged in).
ValidAccount(a) == accounts[a] = "active"

\* add_immediate_task with a rate check that books what it refuses: a denial is saved
\* as a cancelled row before the ValueError is raised.
add_immediate_task_booking(a) ==
  /\ ValidAccount(a)
  /\ LET rl == check_rate_limit(tasks, accounts, a, Now)
         id == Len(tasks) + 1
     IN IF ~rl.allowed
        THEN /\ tasks' = Append(tasks, [NewTask(a, NoTime, Now) EXCEPT !.status = "cancelled"])
             /\ out' = Out(<<>>, Response("publish_now", 0, 400), rl.reason)
             /\ UNCHANGED jobs
        ELSE /\ tasks' = Append(tasks, NewTask(a, NoTime, Now))
             /\ jobs' = add_job(jobs, "immediate_task", id, Now)
             /\ out' = Out(<<Event("task_created", id, "none")>>,
                           Response("publish_now", id, 200), "")
  /\ UNCHANGED <<tick, accounts, execs, sweep, api, bus, clients, call>>

\* add_immediate_task without its call of _check_rate_limit (lines 104-107 left out).
add_immediate_task_unchecked(a) ==
  /\ ValidAccount(a)
  /\ LET id == Len(tasks) + 1
     IN /\ tasks' = Append(tasks, NewTask(a, NoTime, Now))
        /\ jobs' = add_job(jobs, "immediate_task", id, Now)
        /\ out' = Out(<<Event("task_created", id, "none")>>,
                      Response("publish_now", id, 200), "")
  /\ UNCHANGED <<tick, accounts, execs, sweep, api, bus, clients, call>>

\* POST /publish/now -> TaskScheduler.add_immediate_task
publish_now(a) ==
  /\ ValidAccount(a)
  /\ LET rl == check_rate_limit(tasks, accounts, a, Now)
         id == Len(tasks) + 1
     IN IF ~rl.allowed
        THEN /\ out' = Out(<<>>, Response("publish_now", 0, 400), rl.reason)
             /\ UNCHANGED <<tasks, jobs>>
        ELSE /\ tasks' = Append(tasks, NewTask(a, NoTime, Now))
             /\ jobs' = add_job(jobs, "immediate_task", id, Now)
             /\ out' = Out(<<Event("task_created", id, "none")>>,
                           Response("publish_now", id, 200), "")
  /\ UNCHANGED <<tick, accounts, execs, sweep, api, bus, clients, call>>

\* scheduled_at of a request: an instant of the clock after the first.
ScheduleChoices == {Clock[i] : i \in 2..(MaxTick + 1)}

\* get_random_jitter_minutes(max_minutes=5), in seconds: random.uniform(-5, 5) * 60,
\* both ends and the middle.
ScheduleJitters == {0 - 300, 0, 300}

\* add_scheduled_task with the jitter of line 164 taken twice.
add_scheduled_task_double_jitter(a, scheduled_at, jitter) ==
  /\ ValidAccount(a)
  /\ LET id == Len(tasks) + 1
         jittered_time == scheduled_at + jitter + jitter
     IN /\ tasks' = Append(tasks, NewTask(a, jittered_time, Now))
        /\ jobs' = add_job(jobs, "scheduled_task", id, jittered_time)
        /\ out' = Out(<<Event("task_created", id, "none")>>,
                      Response("publish_schedule", id, 200), "")
  /\ UNCHANGED <<tick, accounts, execs, sweep, api, bus, clients, call>>

\* POST /publish/schedule -> TaskScheduler.add_scheduled_task
publish_schedule(a, scheduled_at, jitter) ==
  /\ ValidAccount(a)
  /\ LET id == Len(tasks) + 1
         jittered_time == scheduled_at + jitter
     IN /\ tasks' = Append(tasks, NewTask(a, jittered_time, Now))
        /\ jobs' = add_job(jobs, "scheduled_task", id, jittered_time)
        /\ out' = Out(<<Event("task_created", id, "none")>>,
                      Response("publish_schedule", id, 200), "")
  /\ UNCHANGED <<tick, accounts, execs, sweep, api, bus, clients, call>>

\* Jitter of get_random_jitter_minutes(5), in seconds, and interval_minutes (ge=5).
JitterChoices == {0 - 300, 300}
BatchIntervals == {5, 10}

RECURSIVE BatchJobs(_, _, _, _)
BatchJobs(js, first, n, sched) ==
  IF n = 0 THEN js
  ELSE BatchJobs(add_job(js, "batch_task", first, sched[1]), first + 1, n - 1, Tail(sched))

\* add_batch_tasks counting the items from 1 in line 229: interval_minutes * (idx + 1).
add_batch_tasks_one_based(a, n, interval_minutes, jitter) ==
  /\ ValidAccount(a)
  /\ LET base_time == Now
         first == Len(tasks) + 1
         sched == [idx \in 1..n |->
                     base_time + 60 * interval_minutes * idx + jitter[idx]]
     IN /\ tasks' = tasks \o [idx \in 1..n |-> NewTask(a, sched[idx], Now)]
        /\ jobs' = BatchJobs(jobs, first, n, sched)
        /\ out' = Out([idx \in 1..n |-> Event("task_created", first + idx - 1, "none")],
                      Response("publish_batch", first, 200), "")
  /\ UNCHANGED <<tick, accounts, execs, sweep, api, bus, clients, call>>

\* POST /publish/batch -> TaskScheduler.add_batch_tasks
publish_batch(a, n, interval_minutes, jitter) ==
  /\ ValidAccount(a)
  /\ LET base_time == Now
         first == Len(tasks) + 1
         sched == [idx \in 1..n |->
                     base_time + 60 * interval_minutes * (idx - 1) + jitter[idx]]
     IN /\ tasks' = tasks \o [idx \in 1..n |-> NewTask(a, sched[idx], Now)]
        /\ jobs' = BatchJobs(jobs, first, n, sched)
        /\ out' = Out([idx \in 1..n |-> Event("task_created", first + idx - 1, "none")],
                      Response("publish_batch", first, 200), "")
  /\ UNCHANGED <<tick, accounts, execs, sweep, api, bus, clients, call>>

\* ------------------------------------------------------------ environment
Tick ==
  /\ tick < MaxTick
  /\ tick + 2 <= Len(Clock)
  /\ tick' = tick + 1
  /\ out' = Silent
  /\ UNCHANGED <<tasks, accounts, jobs, execs, sweep, api, bus, clients, call>>

\* PUT /accounts/{id} with is_active
update_account(a, active) ==
  /\ accounts[a] # "missing"
  /\ accounts[a] # (IF active THEN "active" ELSE "inactive")
  /\ accounts' = [accounts EXCEPT ![a] = IF active THEN "active" ELSE "inactive"]
  /\ out' = Silent
  /\ UNCHANGED <<tick, tasks, jobs, execs, sweep, api, bus, clients, call>>

\* DELETE /accounts/{id}
delete_account(a) ==
  /\ accounts[a] # "missing"
  /\ accounts' = [accounts EXCEPT ![a] = "missing"]
  /\ out' = Silent
  /\ UNCHANGED <<tick, tasks, jobs, execs, sweep, api, bus, clients, call>>

\* A date job whose run_date has come: APScheduler starts the coroutine and drops the job.
TimerFire(j) ==
  /\ j \in jobs
  /\ j.run_date <= Now
  /\ CanSpawn
  /\ jobs' = jobs \ {j}
  /\ execs' = Spawn(NewExec(j.task_id, "timer"))
  /\ out' = Silent
  /\ UNCHANGED <<tick, tasks, accounts, sweep, api, bus, clients, call>>


\* ------------------------------------------------------- _execute_task
\* lines 300-316: the row is read; a row that is not pending ends the call; otherwise
\* status = "running" is assigned on the instance, not yet written.
ExecGet(x) ==
  /\ x.pc = "get"
  /\ LET row == tasks[x.task_id]
     IN execs' = IF row.status # "pending"
                 THEN Return(x)
                 ELSE Step(x, [x EXCEPT !.pc = "commit_running",
                                        !.retry_count = row.retry_count])
  /\ out' = Silent
  /\ UNCHANGED <<tick, tasks, accounts, jobs, sweep, api, bus, clients, call>>

\* line 317: the commit writes status = running (UPDATE ... WHERE id = ?).
ExecCommitRunning(x) ==
  /\ x.pc = "commit_running"
  /\ tasks' = [tasks EXCEPT ![x.task_id].status = "running"]
  /\ execs' = Step(x, [x EXCEPT !.pc = "prepare"])
  /\ out' = Silent
  /\ UNCHANGED <<tick, accounts, jobs, sweep, api, bus, clients, call>>

\* lines 354-358: the next start of the active window.
NextActive(t) ==
  LET next_active == DayStart(t) + ACTIVE_TIME_START * 3600
  IN IF next_active <= t THEN next_active + 86400 ELSE next_active

\* lines 323-342: the failure written when the article or the account cannot be used.
ResolveError(article_exists, account) ==
  IF ~article_exists THEN "article_missing"
  ELSE IF account = "missing" THEN "account_missing"
  ELSE IF account = "inactive" THEN "account_disabled"
  ELSE ""

\* lines 319-382: article and account are looked up; then either the task is failed,
\* or deferred to the next active window, or the PublishRecord is inserted and the
\* Publisher is called (pc = "publishing" while zhihu_publisher.publish_article runs).
ExecPrepare(x, article_exists) ==
  /\ x.pc = "prepare"
  /\ LET t == x.task_id
         err == ResolveError(article_exists, accounts[tasks[t].account_id])
     IN IF err # ""
        THEN /\ tasks' = [tasks EXCEPT ![t].status = "failed", ![t].error_message = err]
             /\ execs' = Return(x)
             /\ UNCHANGED jobs
        ELSE IF ~InActiveWindow(Now)
        THEN /\ tasks' = [tasks EXCEPT ![t].status = "pending",
                                       ![t].scheduled_at = NextActive(Now)]
             /\ execs' = Return(x)
             /\ jobs' = add_job(jobs, "delayed_task", t, NextActive(Now))
        ELSE /\ execs' = Step(x, [x EXCEPT !.pc = "publishing"])
             /\ UNCHANGED <<tasks, jobs>>
  /\ out' = Silent
  /\ UNCHANGED <<tick, accounts, sweep, api, bus, clients, call>>

PublisherResults == {"success", "failure", "exception"}

\* An error text that is empty.
NoErrorText(result) == ""

\* lines 432 and 459: the text the Publisher gave, result["message"] or str(e).
ErrorText(result) == "publish_error"

\* lines 444-451 and 468-475: the task_update event of a failure carries retry_count.
FailedEvent(task_id, retry_count) ==
  [type |-> "task_update", task_id |-> task_id, status |-> "failed",
   retry_count |-> retry_count]

\* What a finished publish leaves: its events, the publish_status its PublishRecord
\* was closed with (lines 399, 434, 461), and no error raised to the scheduler job.
Finished(events, publish_status) ==
  [events |-> events, response |-> NoResponse, error |-> "", record |-> publish_status]

Decremented(retry_count) == retry_count - 1

\* lines 431 and 458: task.retry_count += 1 on the instance.
Incremented(retry_count) == retry_count + 1

\* lines 384-475: the Publisher returns or raises; the instance is updated, the event
\* published and the row written from the instance (retry_count from the copy read
\* at line 302). The call ends; its PublishRecord is closed with the same outcome.
ExecFinish(x, result) ==
  /\ x.pc = "publishing"
  /\ LET t == x.task_id
     IN IF result = "success"
        THEN /\ tasks' = [tasks EXCEPT ![t].status = "success"]
             /\ execs' = Return(x)
             /\ out' = Finished(<<Event("task_update", t, "success")>>, "success")
        ELSE /\ tasks' = [tasks EXCEPT ![t].status = "failed",
                                       ![t].retry_count = Incremented(x.retry_count),
                                       ![t].error_message = ErrorText(result)]
             /\ execs' = Return(x)
             /\ out' = Finished(<<FailedEvent(t, Incremented(x.retry_count))>>, "failed")
  /\ UNCHANGED <<tick, accounts, jobs, sweep, api, bus, clients, call>>

\* lines 384-475 when the session.commit() that ends the call raises (aiosqlite:
\* "database is locked"). After a returned Publisher call the event of line 422 or 445
\* is out before the commit of line 454; the except block of line 456 then marks the
\* instance failed, adds 1 to its retry_count and commits again. That commit goes
\* through (recovered), and the failed event of line 468 follows, or it raises too,
\* and the exception ends the job with the row as the last commit left it. After a
\* Publisher call that raised, the commit of line 463 is the one that fails: line 468
\* is not reached.
ExecFinishCommitFails(x, result, recovered) ==
  /\ x.pc = "publishing"
  /\ result = "exception" => ~recovered
  /\ LET t == x.task_id
         published == IF result = "success" THEN <<Event("task_update", t, "success")>>
                      ELSE IF result = "failure"
                      THEN <<FailedEvent(t, Incremented(x.retry_count))>>
                      ELSE <<>>
         retry_count == IF result = "failure" THEN Incremented(Incremented(x.retry_count))
                        ELSE Incremented(x.retry_count)
     IN IF recovered
        THEN /\ tasks' = [tasks EXCEPT ![t].status = "failed",
                                       ![t].retry_count = retry_count,
                                       ![t].error_message = "commit_error"]
             /\ out' = Finished(published \o <<FailedEvent(t, retry_count)>>, "failed")
        ELSE /\ out' = [Finished(published, "running") EXCEPT !.error = "OperationalError"]
             /\ UNCHANGED tasks
  /\ execs' = Return(x)
  /\ UNCHANGED <<tick, accounts, jobs, sweep, api, bus, clients, call>>

\* ------------------------------------------------ _process_pending_tasks
RECURSIVE Ascending(_)
Ascending(S) ==
  IF S = {} THEN <<>>
  ELSE LET m == CHOOSE x \in S : \A y \in S : x <= y IN <<m>> \o Ascending(S \ {m})

\* The select of the pending sweep without its test scheduled_at == None.
PendingDueDated(db, t) ==
  {i \in DOMAIN db : db[i].status = "pending" /\ db[i].scheduled_at # NoTime
                     /\ db[i].scheduled_at <= t}

\* lines 484-490: the rows the pending sweep selects.
PendingDue(db, t) ==
  {i \in DOMAIN db : /\ db[i].status = "pending"
                     /\ (db[i].scheduled_at = NoTime \/ db[i].scheduled_at <= t)}

\* lines 482-492
SweepStart ==
  /\ sweep.pc = "idle"
  /\ PendingDue(tasks, Now) # {}
  /\ sweep' = [pc |-> "loop", todo |-> Ascending(PendingDue(tasks, Now))]
  /\ out' = Silent
  /\ UNCHANGED <<tick, tasks, accounts, jobs, execs, api, bus, clients, call>>

\* lines 494-503: one turn of the loop over the selected rows.
SweepNext ==
  /\ sweep.pc = "loop"
  /\ LET t == Head(sweep.todo)
         rl == check_rate_limit(tasks, accounts, tasks[t].account_id, Now)
         rest == Tail(sweep.todo)
     IN /\ IF rl.allowed
           THEN /\ CanSpawn
                /\ execs' = Spawn(NewExec(t, "sweep"))
           ELSE UNCHANGED execs
        /\ sweep' = IF rest = <<>> THEN [pc |-> "idle", todo |-> <<>>]
                    ELSE [pc |-> "loop", todo |-> rest]
  /\ out' = Silent
  /\ UNCHANGED <<tick, tasks, accounts, jobs, api, bus, clients, call>>

\* --------------------------------------------------- _retry_failed_tasks
\* The mapped columns of PublishTask. updated_at is none of them: the assignments
\* task.updated_at = ... of _execute_task and of the handlers set a plain attribute of
\* one instance, which no commit writes and no later session loads.
TaskColumns == {"id", "article_id", "account_id", "status", "scheduled_at",
                "retry_count", "error_message", "created_at"}

\* The select with retry_count <= MAX_RETRY_COUNT in place of <.
RetryCandidatesUpToMax(db) ==
  {i \in DOMAIN db : db[i].status = "failed" /\ db[i].retry_count <= MAX_RETRY_COUNT}

\* lines 539-542: the rows the retry sweep selects.
RetryCandidates(db) ==
  {i \in DOMAIN db : db[i].status = "failed" /\ db[i].retry_count < MAX_RETRY_COUNT}

Min(a, b) == IF a < b THEN a ELSE b

\* _calculate_next_retry_time without the min of line 522.
next_retry_time_uncapped(retry_count, last_failure_time, jitter) ==
  last_failure_time + RETRY_BASE_DELAY_SECONDS * (2 ^ retry_count) + jitter

\* _calculate_next_retry_time, with the value random.uniform(0, 30) returned as jitter.
calculate_next_retry_time(retry_count, last_failure_time, jitter) ==
  LET delay == Min(RETRY_BASE_DELAY_SECONDS * (2 ^ retry_count), RETRY_MAX_DELAY_SECONDS)
  IN last_failure_time + delay + jitter

\* lines 538-584, one run of the job: the select, now = datetime.now(), then the loop.
\* Line 551 reads task.updated_at of an instance this session has just loaded; the class
\* has no such attribute, so the first turn of the loop raises AttributeError before
\* line 553. select and loop head have no await between them: a run that selects a row
\* ends there, with no row written and no event; a run that selects nothing returns.
retry_failed_tasks ==
  /\ out' = Out(<<>>, JobRun("retry_failed_tasks"),
                IF RetryCandidates(tasks) # {} /\ "updated_at" \notin TaskColumns
                THEN "AttributeError" ELSE "")
  /\ UNCHANGED <<tick, tasks, accounts, jobs, execs, sweep, api, bus, clients, call>>

\* ------------------------------------------------------------ api/tasks.py
\* cancel_task, line 317
Cancellable(status) == status = "pending"

\* cancel_task lines 313-321: the row is read and checked.
CancelGet(t) ==
  /\ api.op = "idle"
  /\ t \in TaskIds
  /\ IF Cancellable(tasks[t].status)
     THEN /\ api' = [op |-> "cancel", task_id |-> t]
          /\ out' = Silent
     ELSE /\ out' = Out(<<>>, Response("cancel", t, 400), "")
          /\ UNCHANGED api
  /\ UNCHANGED <<tick, tasks, accounts, jobs, execs, sweep, bus, clients, call>>

\* cancel_task lines 323-341: the row is written, the jobs removed, the event published.
CancelCommit ==
  /\ api.op = "cancel"
  /\ tasks' = [tasks EXCEPT ![api.task_id].status = "cancelled",
                            ![api.task_id].error_message = "cancelled_by_user"]
  /\ jobs' = remove_jobs(jobs, api.task_id)
  /\ out' = Out(<<Event("task_cancelled", api.task_id, "cancelled")>>,
                Response("cancel", api.task_id, 200), "")
  /\ api' = [op |-> "idle", task_id |-> 0]
  /\ UNCHANGED <<tick, accounts, execs, sweep, bus, clients, call>>

\* update_task lines 353-377: only scheduled_at is written; no job is touched.
update_task(t, scheduled_at) ==
  /\ api.op = "idle"
  /\ t \in TaskIds
  /\ IF tasks[t].status = "pending"
     THEN /\ tasks' = [tasks EXCEPT ![t].scheduled_at = scheduled_at]
          /\ out' = Out(<<>>, Response("update", t, 200), "")
     ELSE /\ out' = Out(<<>>, Response("update", t, 400), "")
          /\ UNCHANGED tasks
  /\ UNCHANGED <<tick, accounts, jobs, execs, sweep, api, bus, clients, call>>

\* --------------------------------------------------------- specification
\* The requests that insert rows, while the table has fewer than cap rows.
Create(cap) ==
  \/ /\ Len(tasks) < cap
     /\ \E a \in Accounts : publish_now(a)
  \/ /\ Len(tasks) < cap
     /\ \E a \in Accounts, s \in ScheduleChoices, j \in ScheduleJitters :
          publish_schedule(a, s, j)
  \/ \E a \in Accounts, n \in 1..(cap - Len(tasks)), m \in BatchIntervals :
       \E jitter \in [1..n -> JitterChoices] : publish_batch(a, n, m, jitter)

\* The scheduler: timers, _execute_task calls, the pending sweep.
Schedule ==
  \/ Tick
  \/ \E j \in jobs : TimerFire(j)
  \/ \E x \in BagToSet(execs) : ExecGet(x)
  \/ \E x \in BagToSet(execs) : ExecCommitRunning(x)
  \/ \E x \in BagToSet(execs), article_exists \in BOOLEAN : ExecPrepare(x, article_exists)
  \/ \E x \in BagToSet(execs), r \in PublisherResults : ExecFinish(x, r)
  \/ SweepStart
  \/ SweepNext

Next ==
  \/ Create(MaxTasks)
  \/ Schedule
  \/ \E a \in Accounts, b \in BOOLEAN : update_account(a, b)
  \/ \E a \in Accounts : delete_account(a)
  \/ retry_failed_tasks
  \/ \E t \in TaskIds : CancelGet(t)
  \/ CancelCommit
  \/ \E t \in TaskIds, s \in ScheduleChoices : update_task(t, s)

Spec == Init /\ [][Next]_vars

\* Publication alone: no cancel, no update, no account change, no retry sweep.
NextQuota == Create(MaxQuotaTasks) \/ Schedule

SpecQuota == Init /\ [][NextQuota]_vars

\* The retry sweep alone, over any table of up to MaxRetryRows rows of past tasks.
RetryRows ==
  {[account_id |-> a, status |-> st, scheduled_at |-> NoTime, retry_count |-> rc,
    error_message |-> "", created_at |-> UtcNow(Clock[1])] :
     a \in Accounts, st \in Statuses, rc \in 0..MAX_RETRY_COUNT}

InitRetry ==
  /\ tick = 0
  /\ tasks \in UNION {[1..n -> RetryRows] : n \in 1..MaxRetryRows}
  /\ accounts = [a \in Accounts |-> "active"]
  /\ jobs = {}
  /\ execs = EmptyBag
  /\ sweep = [pc |-> "idle", todo |-> <<>>]
  /\ api = [op |-> "idle", task_id |-> 0]
  /\ out = Silent
  /\ bus = NoSubscribers
  /\ clients = [c \in Clients |-> NotConnected]
  /\ call = NoCall

NextRetry == retry_failed_tasks

SpecRetry == InitRetry /\ [][NextRetry]_vars

\* ------------------------------------- the pending sweep after a restart
\* Pending rows whose date job is gone: the job store of AsyncIOScheduler is in
\* memory, so a restart of the process leaves the rows without their timers.
SweepRows ==
  {NewTask(a, scheduled_at, Clock[1]) :
     a \in Accounts, scheduled_at \in {NoTime, Clock[2], Clock[3]}}

InitSweep ==
  /\ tick = 0
  /\ tasks \in UNION {[1..n -> SweepRows] : n \in 1..MaxSweepRows}
  /\ accounts = [a \in Accounts |-> "active"]
  /\ jobs = {}
  /\ execs = EmptyBag
  /\ sweep = [pc |-> "idle", todo |-> <<>>]
  /\ api = [op |-> "idle", task_id |-> 0]
  /\ out = Silent
  /\ bus = NoSubscribers
  /\ clients = [c \in Clients |-> NotConnected]
  /\ call = NoCall

ExecGetSome == \E x \in BagToSet(execs) : ExecGet(x)
ExecCommitRunningSome == \E x \in BagToSet(execs) : ExecCommitRunning(x)
ExecPrepareSome ==
  \E x \in BagToSet(execs), article_exists \in BOOLEAN : ExecPrepare(x, article_exists)
ExecFinishSome == \E x \in BagToSet(execs), r \in PublisherResults : ExecFinish(x, r)

NextSweep ==
  \/ Tick
  \/ SweepStart
  \/ SweepNext
  \/ ExecGetSome
  \/ ExecCommitRunningSome
  \/ ExecPrepareSome
  \/ ExecFinishSome

\* start() registers _process_pending_tasks as an interval job (lines 58-64), so a
\* sweep that can start does start and its loop goes on; time passes; the event loop
\* runs every coroutine that is ready, and the Publisher returns or raises.
SpecSweep ==
  /\ InitSweep /\ [][NextSweep]_vars
  /\ WF_vars(Tick) /\ WF_vars(SweepStart) /\ WF_vars(SweepNext)
  /\ WF_vars(ExecGetSome) /\ WF_vars(ExecCommitRunningSome)
  /\ WF_vars(ExecPrepareSome) /\ WF_vars(ExecFinishSome)

\* ------------------------------------------------ add_batch_tasks on its own
\* POST /publish/batch with up to MaxBatchRows articles, at any instant of the clock.
NextBatch ==
  \/ Tick
  \/ \E a \in Accounts, n \in 1..(MaxBatchRows - Len(tasks)), m \in BatchIntervals :
       \E jitter \in [1..n -> ScheduleJitters] : publish_batch(a, n, m, jitter)

SpecBatch == Init /\ [][NextBatch]_vars

\* ---------------------------------- _calculate_next_retry_time over drawn inputs
\* Values of random.uniform(0, RETRY_JITTER_MAX_SECONDS): both ends and the middle.
RetryJitters == {0, RETRY_JITTER_MAX_SECONDS \div 2, RETRY_JITTER_MAX_SECONDS}

\* A call TaskScheduler._calculate_next_retry_time(retry_count, last_failure_time)
\* about to be made.
BackoffCalls ==
  {[fn |-> "calculate_next_retry_time", args |-> <<n, Clock[i]>>, result |-> <<>>] :
     n \in 0..MaxRetryArg, i \in DOMAIN Clock}

InitBackoff ==
  /\ tick = 0
  /\ tasks = <<>>
  /\ accounts = [a \in Accounts |-> "active"]
  /\ jobs = {}
  /\ execs = EmptyBag
  /\ sweep = [pc |-> "idle", todo |-> <<>>]
  /\ api = [op |-> "idle", task_id |-> 0]
  /\ out = Silent
  /\ bus = NoSubscribers
  /\ clients = [c \in Clients |-> NotConnected]
  /\ call \in BackoffCalls

\* lines 521-526: the call returns, random.uniform having given jitter.
CallNextRetryTime(jitter) ==
  /\ call.fn = "calculate_next_retry_time"
  /\ call.result = <<>>
  /\ call' = [call EXCEPT !.result =
                 <<calculate_next_retry_time(call.args[1], call.args[2], jitter)>>]
  /\ UNCHANGED <<tick, tasks, accounts, jobs, execs, sweep, api, out, bus, clients>>

NextBackoff == \E jitter \in RetryJitters : CallNextRetryTime(jitter)

SpecBackoff == InitBackoff /\ [][NextBackoff]_vars

\* ------------------------------------------- _check_rate_limit over drawn tables
\* The accounts of the gate specification.
GateAccounts == {1, 2}

\* The instant the gate is consulted at: 08:00 of day 1.
GateTick == 6

\* created_at of a task that POST /publish/schedule created on day 0 at 08:05, and of
\* one it created on day 1 at 00:30.
CreatedYesterday == Clock[3]
CreatedToday == DayStart(Clock[GateTick + 1]) + 1800

\* finished_at of the PublishRecord of a task: lines 401, 436 and 462 (datetime.now()
\* when the publish ended); day 0 at 08:10, or day 1 at 08:00.
FinishedYesterday == Clock[4]
FinishedToday == Clock[GateTick + 1]

\* A row of publish_tasks together with finished_at of its PublishRecord.
GateRow(account_id, status, created_at, finished_at) ==
  [account_id |-> account_id, status |-> status, scheduled_at |-> FinishedToday,
   retry_count |-> 0, error_message |-> "", created_at |-> created_at,
   finished_at |-> finished_at]

\* Rows the scheduler leaves: published the day it was created, created on day 0 and
\* published on day 1, created and published on day 1, or still pending.
GateRows ==
  UNION {{GateRow(a, "success", CreatedYesterday, FinishedYesterday),
          GateRow(a, "success", CreatedYesterday, FinishedToday),
          GateRow(a, "success", CreatedToday, FinishedToday),
          GateRow(a, "pending", CreatedToday, NoTime)} : a \in GateAccounts}

\* Row ids are given in the order of creation.
InCreationOrder(db) ==
  \A i \in 1..(Len(db) - 1) : db[i].created_at <= db[i + 1].created_at

InitGate ==
  /\ tick = GateTick
  /\ tasks \in {db \in UNION {[1..n -> GateRows] : n \in 1..MaxGateRows} :
                   InCreationOrder(db)}
  /\ accounts = [a \in GateAccounts |-> "active"]
  /\ jobs = {}
  /\ execs = EmptyBag
  /\ sweep = [pc |-> "idle", todo |-> <<>>]
  /\ api = [op |-> "idle", task_id |-> 0]
  /\ out = Silent
  /\ bus = NoSubscribers
  /\ clients = [c \in Clients |-> NotConnected]
  /\ call = NoCall

\* POST /publish/now for either account, over the drawn table.
NextGate == \E a \in GateAccounts : Len(tasks) <= MaxGateRows /\ publish_now(a)

SpecGate == InitGate /\ [][NextGate]_vars

\* ------------------------------------ the retry sweep a day after the failures
\* Rows the scheduler left on day 0, together with finished_at of the PublishRecord of
\* the task's attempt (lines 403, 437 and 462: datetime.now() when the publish ended).
\* A row that failed in the Publisher has retry_count 1 and the error text; one that
\* failed at lines 323-342 has retry_count 0 and no PublishRecord.
ReadmitRow(account_id, status, scheduled_at, retry_count, error_message, finished_at) ==
  [account_id |-> account_id, status |-> status, scheduled_at |-> scheduled_at,
   retry_count |-> retry_count, error_message |-> error_message,
   created_at |-> UtcNow(Clock[1]), finished_at |-> finished_at]

ReadmitRows ==
  UNION {{ReadmitRow(a, "failed", at, 1, ErrorText("failure"), Clock[2]),
          ReadmitRow(a, "failed", at, 0, ResolveError(FALSE, "active"), NoTime),
          ReadmitRow(a, "success", at, 0, "", Clock[2]),
          ReadmitRow(a, "pending", at, 0, "", NoTime),
          ReadmitRow(a, "running", at, 0, "", NoTime),
          ReadmitRow(a, "cancelled", at, 0, "cancelled_by_user", NoTime)} :
            a \in Accounts, at \in {NoTime, Clock[2]}}

\* 08:00 of day 1: every back-off that started on day 0 has run out.
InitReadmit ==
  /\ tick = GateTick
  /\ tasks \in UNION {[1..n -> ReadmitRows] : n \in 1..MaxRetryRows}
  /\ accounts = [a \in Accounts |-> "active"]
  /\ jobs = {}
  /\ execs = EmptyBag
  /\ sweep = [pc |-> "idle", todo |-> <<>>]
  /\ api = [op |-> "idle", task_id |-> 0]
  /\ out = Silent
  /\ bus = NoSubscribers
  /\ clients = [c \in Clients |-> NotConnected]
  /\ call = NoCall

NextReadmit == retry_failed_tasks

SpecReadmit == InitReadmit /\ [][NextReadmit]_vars

\* --------------------------------------- a Publisher call that never returns
\* The task whose Publisher call is blocked, and the call: started by the task's
\* timer, past the commit of running and the insert of its PublishRecord.
BlockedTask == 1
BlockedExec == [NewExec(BlockedTask, "timer") EXCEPT !.pc = "publishing"]

\* Task 1, of account 1, is running inside the Publisher; task 2, of account 2, is
\* pending, with or without a date, and has lost its date job.
InitBlocked ==
  /\ tick = 0
  /\ \E scheduled_at \in {NoTime, Clock[1], Clock[2]} :
       tasks = <<[NewTask(1, NoTime, Clock[1]) EXCEPT !.status = "running"],
                 NewTask(2, scheduled_at, Clock[1])>>
  /\ accounts = [a \in GateAccounts |-> "active"]
  /\ jobs = {}
  /\ execs = SetToBag({BlockedExec})
  /\ sweep = [pc |-> "idle", todo |-> <<>>]
  /\ api = [op |-> "idle", task_id |-> 0]
  /\ out = Silent
  /\ bus = NoSubscribers
  /\ clients = [c \in Clients |-> NotConnected]
  /\ call = NoCall

\* The Publisher returns or raises for every call but the blocked one.
ExecFinishOthers ==
  \E x \in BagToSet(execs) \ {BlockedExec}, r \in PublisherResults : ExecFinish(x, r)

NextBlocked ==
  \/ Tick
  \/ SweepStart
  \/ SweepNext
  \/ retry_failed_tasks
  \/ ExecGetSome
  \/ ExecCommitRunningSome
  \/ ExecPrepareSome
  \/ ExecFinishOthers

\* Time passes, the interval jobs run, and the event loop runs every coroutine that is
\* ready; the Publisher answers every call but the blocked one.
SpecBlocked ==
  /\ InitBlocked /\ [][NextBlocked]_vars
  /\ WF_vars(Tick) /\ WF_vars(SweepStart) /\ WF_vars(SweepNext)
  /\ WF_vars(ExecGetSome) /\ WF_vars(ExecCommitRunningSome)
  /\ WF_vars(ExecPrepareSome) /\ WF_vars(ExecFinishOthers)

\* ------------------------------------------ publication with failing commits
ExecFinishCommitFailsSome ==
  \E x \in BagToSet(execs), r \in PublisherResults, recovered \in BOOLEAN :
    ExecFinishCommitFails(x, r, recovered)

\* Creation and the scheduler as under Spec, over a database whose commit at the end
\* of a publish can fail. The other specifications have every commit go through.
NextCommit ==
  \/ Create(MaxTasks)
  \/ Schedule
  \/ ExecFinishCommitFailsSome

SpecCommit == Init /\ [][NextCommit]_vars

\* ------------------------------------------------- EventBus of api/events.py
Range(list) == {list[i] : i \in DOMAIN list}

\* The message of the n-th call of publish (lines 47-51). The queues hold the message
\* object; n stands for its identity and for its place in the order of the calls.
Message(n) == [type |-> "task_update", n |-> n]

\* asyncio.Queue.put_nowait on a queue of maxsize 256 that takes every message,
\* whatever it holds.
put_unbounded(queue, message) == [full |-> FALSE, queue |-> Append(queue, message)]

\* line 56: asyncio.Queue.put_nowait, which raises QueueFull when qsize() >= maxsize.
put_nowait(queue, message) ==
  IF Len(queue) >= QUEUE_MAXSIZE
  THEN [full |-> TRUE, queue |-> queue]
  ELSE [full |-> FALSE, queue |-> Append(queue, message)]

\* asyncio.Queue.get that hands out the newest message.
queue_get_newest(queue) ==
  [item |-> queue[Len(queue)], queue |-> SubSeq(queue, 1, Len(queue) - 1)]

\* lines 92 and 137: asyncio.Queue.get on a queue that is not empty.
queue_get(queue) == [item |-> Head(queue), queue |-> Tail(queue)]

\* list.remove: drops the first occurrence, raises ValueError when there is none.
list_remove(list, q) ==
  IF q \in Range(list)
  THEN LET i == CHOOSE k \in DOMAIN list : list[k] = q /\ \A m \in 1..(k - 1) : list[m] # q
       IN [list |-> SubSeq(list, 1, i - 1) \o SubSeq(list, i + 1, Len(list)), error |-> ""]
  ELSE [list |-> list, error |-> "ValueError"]

\* The removal of the finally blocks without its membership test.
remove_unguarded(list, q) == list_remove(list, q)

\* lines 94-96 and 149-151: if queue in subscribers: subscribers.remove(queue)
unsubscribe(list, q) ==
  IF q \in Range(list) THEN list_remove(list, q) ELSE [list |-> list, error |-> ""]

\* lines 118-129 (and 84-88): GET /events/stream yields the connected payload, creates
\* the client's queue and appends it to the subscribers, under the lock.
Subscribe(c) ==
  /\ clients[c].pc = "new"
  /\ bus.published <= MaxSubscribeAt
  /\ bus' = [bus EXCEPT !.subscribers = Append(@, c), !.queues[c] = <<>>]
  /\ clients' = [clients EXCEPT ![c].pc = "open", ![c].yielded = "connected"]
  /\ UNCHANGED <<tick, tasks, accounts, jobs, execs, sweep, api, out, call>>

\* EventBus.publish without the removal of lines 62-64: a subscriber whose queue is
\* full misses the message and stays subscribed.
PublishKeepsDead ==
  /\ bus.published < MaxPublished
  /\ LET message == Message(bus.published + 1)
         put == [q \in Range(bus.subscribers) |-> put_nowait(bus.queues[q], message)]
     IN bus' = [bus EXCEPT !.queues = [q \in Clients |-> IF q \in Range(bus.subscribers)
                                                         THEN put[q].queue ELSE bus.queues[q]],
                           !.published = bus.published + 1]
  /\ UNCHANGED <<tick, tasks, accounts, jobs, execs, sweep, api, out, clients, call>>

\* lines 39-66: EventBus.publish. The lock is held from the first put_nowait to the
\* last removal and nothing in between awaits, so the call is one step.
Publish ==
  /\ bus.published < MaxPublished
  /\ LET message == Message(bus.published + 1)
         put == [q \in Range(bus.subscribers) |-> put_nowait(bus.queues[q], message)]
         dead_queues == SelectSeq(bus.subscribers, LAMBDA q : put[q].full)
     IN bus' = [subscribers |-> SelectSeq(bus.subscribers, LAMBDA q : ~put[q].full),
                queues |-> [q \in Clients |-> IF q \in Range(bus.subscribers)
                                               THEN put[q].queue ELSE bus.queues[q]],
                published |-> bus.published + 1,
                warnings |-> bus.warnings + Len(dead_queues)]
  /\ UNCHANGED <<tick, tasks, accounts, jobs, execs, sweep, api, out, clients, call>>

\* lines 90-93 and 132-140: the generator takes the next message of its queue and
\* yields it. A generator whose queue was removed by publish goes on reading it.
Get(c) ==
  /\ clients[c].pc = "open"
  /\ bus.queues[c] # <<>>
  /\ clients[c].received < MaxReceived
  /\ LET got == queue_get(bus.queues[c])
     IN /\ bus' = [bus EXCEPT !.queues[c] = got.queue]
        /\ clients' = [clients EXCEPT ![c].last = got.item.n,
                                      ![c].received = @ + 1,
                                      ![c].yielded = "event"]
  /\ UNCHANGED <<tick, tasks, accounts, jobs, execs, sweep, api, out, call>>

\* lines 94-96 and 149-151: the client goes away, the generator is closed and its
\* finally block takes the queue out of the subscribers; the queue and the
\* generator's locals are gone.
Disconnect(c) ==
  /\ clients[c].pc = "open"
  /\ LET removed == unsubscribe(bus.subscribers, c)
     IN /\ bus' = [bus EXCEPT !.subscribers = removed.list, !.queues[c] = <<>>]
        /\ out' = Out(<<>>, NoResponse, removed.error)
  /\ clients' = [clients EXCEPT ![c] = [NotConnected EXCEPT !.pc = "closed"]]
  /\ UNCHANGED <<tick, tasks, accounts, jobs, execs, sweep, api, call>>

\* A keepalive that is sent as a message through the client's own queue.
HeartbeatThroughQueue(c) ==
  /\ clients[c].pc = "open"
  /\ bus.queues[c] = <<>>
  /\ bus' = [bus EXCEPT !.queues[c] = Append(@, [type |-> "heartbeat", n |-> 0])]
  /\ clients' = [clients EXCEPT ![c].yielded = "heartbeat"]
  /\ UNCHANGED <<tick, tasks, accounts, jobs, execs, sweep, api, out, call>>

\* lines 134-143: wait_for(queue.get(), timeout=HEARTBEAT_INTERVAL_SECONDS) ends in
\* TimeoutError, which it does when the queue stayed empty for the interval; the
\* generator yields the comment line ": heartbeat" and waits again.
Heartbeat(c) ==
  /\ clients[c].pc = "open"
  /\ bus.queues[c] = <<>>
  /\ clients' = [clients EXCEPT ![c].yielded = "heartbeat"]
  /\ UNCHANGED <<tick, tasks, accounts, jobs, execs, sweep, api, out, bus, call>>

NextBus ==
  \/ \E c \in Clients : Subscribe(c)
  \/ Publish
  \/ \E c \in Clients : Get(c)
  \/ \E c \in Clients : Heartbeat(c)
  \/ \E c \in Clients : Disconnect(c)

SpecBus == Init /\ [][NextBus]_vars

\* ------------------------------------------------------------------ claims
\* The step in which the call x inserts its PublishRecord and calls the Publisher.
StartsPublishing(x) ==
  /\ x.pc = "prepare"
  /\ CopiesIn([x EXCEPT !.pc = "publishing"], execs')
       > CopiesIn([x EXCEPT !.pc = "publishing"], execs)

\* The calls of _execute_task(t) that are inside the Publisher.
Publishing(t) ==
  [x \in {y \in BagToSet(execs) : y.task_id = t /\ y.pc = "publishing"} |-> execs[x]]

\* C1: whatever the interleaving of the calls of _execute_task for one task, at most
\* one of them is active at a time: no task has two calls inside the Publisher, each
\* with a PublishRecord of its own.
C1_OneAttemptActive == \A t \in TaskIds : BagCardinality(Publishing(t)) <= 1

\* C2: success and cancelled are terminal: no step changes the status of a task that
\* is in success or in cancelled.
C2_TerminalStatuses ==
  [][\A t \in DOMAIN tasks :
       tasks[t].status \in {"success", "cancelled"}
         => tasks'[t].status = tasks[t].status]_vars

\* C3: once cancel has succeeded for a task (the row carries the message cancel wrote),
\* no call of _execute_task for it inserts a PublishRecord and calls the Publisher.
C3_NoPublishAfterCancel ==
  [][\A x \in BagToSet(execs) :
       tasks[x.task_id].error_message = "cancelled_by_user" => ~StartsPublishing(x)]_vars

\* C4: cancel on a task whose status is running, success, failed or cancelled answers
\* with the invalid-state error and changes neither the row nor the jobs nor publishes
\* an event; cancel on a pending task sets the status to cancelled.
C4_CancelOnlyPending ==
  [][/\ \A t \in TaskIds :
          CancelGet(t) /\ tasks[t].status # "pending"
            => /\ out'.response = Response("cancel", t, 400)
               /\ out'.events = <<>>
               /\ tasks' = tasks /\ jobs' = jobs /\ api' = api
     /\ CancelCommit
          => IF tasks[api.task_id].status = "pending"
             THEN tasks'[api.task_id].status = "cancelled"
             ELSE tasks' = tasks /\ jobs' = jobs /\ out'.events = <<>>]_vars

\* C5: every change of a task's status is pending->running, running->success,
\* running->failed, pending->cancelled or failed->pending, and every new task is pending.
C5_OnlyFiveTransitions ==
  [][/\ \A t \in DOMAIN tasks :
          tasks'[t].status # tasks[t].status
            => <<tasks[t].status, tasks'[t].status>> \in
                 {<<"pending", "running">>, <<"running", "success">>,
                  <<"running", "failed">>, <<"pending", "cancelled">>,
                  <<"failed", "pending">>}
     /\ \A t \in DOMAIN tasks' \ DOMAIN tasks : tasks'[t].status = "pending"]_vars

\* C6: a call of _execute_task started by a timer calls the Publisher only if, at that
\* moment, neither the daily-quota gate nor the minimum-spacing gate of the rate limiter
\* denies the account (the task's own row counted as pending, as at an admission check).
C6_RateCheckAtFireTime ==
  [][\A x \in BagToSet(execs) :
       x.origin = "timer" /\ StartsPublishing(x)
         => check_rate_limit([tasks EXCEPT ![x.task_id].status = "pending"], accounts,
                             tasks[x.task_id].account_id, Now).reason
              \notin {"quota", "spacing"}]_vars

\* C7: for every account, the tasks that reached success on one calendar day are at
\* most the account's daily_limit (checked while every sampled instant so far lies on
\* one day, so that every success so far happened on that day).
C7_DailyLimit ==
  \A a \in Accounts :
    DayStart(Clock[1]) = DayStart(Now)
      => Cardinality({t \in TaskIds : tasks[t].account_id = a /\ tasks[t].status = "success"})
           <= (IF AccountDailyLimit(a) # 0 THEN AccountDailyLimit(a)
               ELSE DAILY_PUBLISH_LIMIT)

\* C9: a run of the retry sweep leaves every task with retry_count >= MAX_RETRY_COUNT as
\* it is, and a run over a table whose failed tasks all have retry_count >=
\* MAX_RETRY_COUNT selects none of them: it reads no row's failure time and returns.
C9_RetryCapped ==
  [][retry_failed_tasks
       => /\ \A t \in TaskIds :
               tasks[t].retry_count >= MAX_RETRY_COUNT => tasks'[t] = tasks[t]
          /\ (\A t \in TaskIds : tasks[t].status = "failed"
                                   => tasks[t].retry_count >= MAX_RETRY_COUNT)
               => out'.error = ""]_vars

\* A retry sweep has run over a table with a failed task at the cap.
C9_Witness ==
  /\ out.response = JobRun("retry_failed_tasks")
  /\ \E t \in TaskIds :
       tasks[t].status = "failed" /\ tasks[t].retry_count = MAX_RETRY_COUNT

C11_FailedIncrementsRetryCount ==
  [][\A t \in DOMAIN tasks :
       tasks[t].status # "failed" /\ tasks'[t].status = "failed"
         => tasks'[t].retry_count = tasks[t].retry_count + 1]_vars

\* C12: a task becomes failed only after an attempted execution: every step that moves a
\* task into failed is made by a call of _execute_task that has inserted its
\* PublishRecord and called the Publisher.
C12_FailedOnlyAfterAttempt ==
  [][\A t \in DOMAIN tasks :
       tasks[t].status # "failed" /\ tasks'[t].status = "failed"
         => \E x \in BagToSet(execs) :
              /\ x.task_id = t
              /\ x.pc = "publishing"
              /\ CopiesIn(x, execs') < CopiesIn(x, execs)]_vars

\* C13: the retry_count of every task is non-negative and no step decreases it.
C13_RetryCountMonotonic ==
  [][\A t \in DOMAIN tasks :
       /\ tasks'[t].retry_count >= tasks[t].retry_count
       /\ tasks'[t].retry_count >= 0]_vars

\* A task has failed in the Publisher and its retry_count was incremented.
C13_Witness ==
  \E t \in TaskIds : tasks[t].status = "failed" /\ tasks[t].retry_count > 0

\* C14: every step that creates a task or changes a task's status publishes an event
\* for that task: a new task has an event with its id, a change of status has an event
\* with the task's id and the new status.
C14_EventPerTransition ==
  [][/\ \A t \in DOMAIN tasks :
          tasks'[t].status # tasks[t].status
            => \E i \in DOMAIN out'.events :
                 /\ out'.events[i].task_id = t
                 /\ out'.events[i].status = tasks'[t].status
     /\ \A t \in DOMAIN tasks' \ DOMAIN tasks :
          \E i \in DOMAIN out'.events : out'.events[i].task_id = t]_vars

\* C15: a publish_now step whose rate check denies answers 400 with the reason of the
\* denial and leaves tasks and jobs unchanged and publishes no event; one whose rate check
\* allows appends exactly one pending task without scheduled_at and adds exactly one job.
C15_ImmediateDeniedOrCreated ==
  [][\A a \in Accounts :
       publish_now(a) =>
         LET rl == check_rate_limit(tasks, accounts, a, Now)
         IN IF ~rl.allowed
            THEN /\ tasks' = tasks
                 /\ jobs' = jobs
                 /\ out'.events = <<>>
                 /\ out'.response.code = 400
                 /\ out'.error = rl.reason
                 /\ rl.reason \notin {"", "OK"}
            ELSE /\ Len(tasks') = Len(tasks) + 1
                 /\ SubSeq(tasks', 1, Len(tasks)) = tasks
                 /\ tasks'[Len(tasks')].status = "pending"
                 /\ tasks'[Len(tasks')].scheduled_at = NoTime
                 /\ tasks'[Len(tasks')].account_id = a
                 /\ jobs \subseteq jobs'
                 /\ Cardinality(jobs' \ jobs) = 1
                 /\ \A j \in jobs' \ jobs : j.task_id = Len(tasks')]_vars

\* An immediate publish was refused because the account used up its daily quota.
C15_Witness ==
  /\ out.response = Response("publish_now", 0, 400)
  /\ out.error = "quota"
  /\ \E t \in TaskIds : tasks[t].status = "success"

\* C16: when the Publisher reports a failure or raises, the step that ends the call
\* raises nothing, leaves the task failed with a non-empty error_message, closes the
\* PublishRecord as failed, and publishes one task_update event with status failed and
\* the task's new retry_count.
C16_PublisherFailureHandled ==
  [][\A x \in BagToSet(execs) : \A result \in {"failure", "exception"} :
       ExecFinish(x, result) =>
         /\ out'.error = ""
         /\ tasks'[x.task_id].status = "failed"
         /\ tasks'[x.task_id].error_message # ""
         /\ out'.record = "failed"
         /\ Len(out'.events) = 1
         /\ out'.events[1].type = "task_update"
         /\ out'.events[1].task_id = x.task_id
         /\ out'.events[1].status = "failed"
         /\ out'.events[1].retry_count = tasks'[x.task_id].retry_count
         /\ CopiesIn(x, execs') < CopiesIn(x, execs)]_vars

\* A publish has just ended in failure: the event of the failure is the last output.
C16_Witness ==
  /\ "record" \in DOMAIN out
  /\ out.record = "failed"
  /\ \E t \in TaskIds :
       /\ tasks[t].status = "failed"
       /\ tasks[t].error_message = ErrorText("failure")
       /\ out.events = <<FailedEvent(t, tasks[t].retry_count)>>

\* C17: a publish step raises nothing and, for each subscriber, either appends the
\* message to its queue or, when the queue holds QUEUE_MAXSIZE messages, takes the
\* subscriber out; the other subscribers get the message, the order of the
\* subscribers is kept, and no queue holds more than QUEUE_MAXSIZE messages.
C17_PublishEnqueuesOrDrops ==
  [][Publish =>
       /\ \A q \in Range(bus.subscribers) :
            IF Len(bus.queues[q]) < QUEUE_MAXSIZE
            THEN /\ q \in Range(bus'.subscribers)
                 /\ bus'.queues[q] = Append(bus.queues[q], Message(bus'.published))
            ELSE /\ q \notin Range(bus'.subscribers)
                 /\ bus'.queues[q] = bus.queues[q]
       /\ Range(bus'.subscribers) \subseteq Range(bus.subscribers)
       /\ \A q \in Clients : Len(bus'.queues[q]) <= QUEUE_MAXSIZE
       /\ out' = out]_vars

\* A publish found the queue of one subscriber full and dropped it, while the other
\* subscriber, which had taken a message, got the event.
C17_Witness ==
  \E q, r \in Clients :
    /\ clients[q].pc = "open" /\ q \notin Range(bus.subscribers)
    /\ Len(bus.queues[q]) = QUEUE_MAXSIZE
    /\ bus.warnings = 1
    /\ r \in Range(bus.subscribers)
    /\ bus.queues[r] # <<>>
    /\ bus.queues[r][Len(bus.queues[r])] = Message(bus.published)
    /\ bus.published > QUEUE_MAXSIZE

\* C18: every message a client takes from its queue was published before every message
\* still waiting in the queue and after the message the client took last, so a client
\* receives its messages in the order of the publish calls.
C18_ReceivedInPublishOrder ==
  [][\A c \in Clients :
       Get(c) =>
         /\ clients'[c].last > clients[c].last
         /\ \A i \in DOMAIN bus'.queues[c] : clients'[c].last < bus'.queues[c][i].n
         /\ \A i \in 1..(Len(bus'.queues[c]) - 1) :
              bus'.queues[c][i].n < bus'.queues[c][i + 1].n]_vars

\* A client has taken two messages while later ones wait in its queue, with another
\* client connected at the same time.
C18_Witness ==
  \E c, d \in Clients :
    /\ c # d
    /\ clients[c].pc = "open" /\ clients[c].received = 2
    /\ Len(bus.queues[c]) >= 2
    /\ clients[d].pc = "open" /\ clients[d].received = 1
    /\ clients[d].last < clients[c].last

\* C19: the removal that ends a subscription raises nothing, leaves the subscribers as
\* they are when the queue is no longer among them, never removes another subscriber,
\* and removing twice gives what removing once gives.
C19_UnsubscribeIdempotent ==
  [][\A c \in Clients :
       Disconnect(c) =>
         /\ out'.error = ""
         /\ c \notin Range(bus.subscribers) => bus'.subscribers = bus.subscribers
         /\ c \notin Range(bus'.subscribers)
         /\ \A d \in Range(bus.subscribers) \ {c} : d \in Range(bus'.subscribers)
         /\ Len(bus'.subscribers) >= Len(bus.subscribers) - 1
         /\ unsubscribe(bus'.subscribers, c) = [list |-> bus'.subscribers, error |-> ""]]_vars

\* A client that publish had dropped has ended its subscription; the other client is
\* still subscribed and nothing was raised.
C19_Witness ==
  \E c, d \in Clients :
    /\ bus.warnings = 1
    /\ clients[c].pc = "closed"
    /\ clients[d].pc = "open" /\ bus.subscribers = <<d>>
    /\ out = Out(<<>>, NoResponse, "")
    /\ bus.published > QUEUE_MAXSIZE

\* The successful publishes of an account since local midnight.
SuccessesToday(db, account_id, t) ==
  Cardinality({i \in DOMAIN db : /\ db[i].account_id = account_id
                                 /\ db[i].status = "success"
                                 /\ db[i].finished_at >= DayStart(t)})

\* C20: inside the active window, an immediate publish is refused for the daily quota
\* exactly when the account's successful publishes since local midnight number at
\* least its daily_limit (DAILY_PUBLISH_LIMIT when the account has none).
C20_QuotaGateCountsToday ==
  [][\A a \in DOMAIN accounts :
       publish_now(a) /\ InActiveWindow(Now) =>
         LET daily_limit == IF AccountDailyLimit(a) # 0
                            THEN AccountDailyLimit(a) ELSE DAILY_PUBLISH_LIMIT
         IN (out'.error = "quota") <=> (SuccessesToday(tasks, a, Now) >= daily_limit)]_vars

\* The tables and services a rate check could write to.
checked == <<tasks, accounts, jobs, execs, bus, clients>>

\* C21: a step that evaluates the rate check changes nothing through it: when the
\* check denies (an immediate publish refused, a sweep turn that dispatches nothing),
\* tasks, accounts, jobs, calls in progress and event bus are as before and the check
\* repeated gives the same verdict; when it allows, only the insert or the dispatch
\* that follows it is made.
C21_RateCheckIsPure ==
  [][/\ \A a \in Accounts :
          publish_now(a) =>
            LET rl == check_rate_limit(tasks, accounts, a, Now)
            IN /\ ~rl.allowed =>
                    /\ checked' = checked
                    /\ check_rate_limit(tasks', accounts', a, Now') = rl
               /\ <<accounts, execs, bus, clients>>' = <<accounts, execs, bus, clients>>
               /\ SubSeq(tasks', 1, Len(tasks)) = tasks
     /\ SweepNext =>
          LET rl == check_rate_limit(tasks, accounts, tasks[Head(sweep.todo)].account_id, Now)
          IN /\ ~rl.allowed =>
                  /\ checked' = checked
                  /\ check_rate_limit(tasks', accounts',
                                      tasks[Head(sweep.todo)].account_id, Now') = rl
             /\ <<tasks, accounts, jobs, bus, clients>>' = <<tasks, accounts, jobs, bus, clients>>]_vars

\* An immediate publish was refused for the spacing after a task that is running, and
\* the table holds that task alone.
C21_Witness ==
  /\ out.response = Response("publish_now", 0, 400)
  /\ out.error = "spacing"
  /\ Len(tasks) = 1
  /\ tasks[1].status = "running"

\* C22: the time _calculate_next_retry_time(n, t) returns lies between
\* t + min(60 * 2^n, 1800) and that plus 30 seconds, which is [t + 60, t + 90] for
\* n = 0 and [t + 1800, t + 1830] for n = 10; without jitter the delay does not
\* decrease when n grows.
C22_BackoffWithinBounds ==
  (call.fn = "calculate_next_retry_time" /\ call.result # <<>>) =>
    LET n == call.args[1]
        t == call.args[2]
        d == call.result[1] - t
        floor == IF 60 * (2 ^ n) < 1800 THEN 60 * (2 ^ n) ELSE 1800
    IN /\ floor <= d /\ d <= floor + 30
       /\ n = 0 => (60 <= d /\ d <= 90)
       /\ n = 10 => (1800 <= d /\ d <= 1830)
       /\ \A m \in 0..n :
            calculate_next_retry_time(m, t, 0) <= calculate_next_retry_time(n, t, 0)

\* The call with retry_count 10 has returned the capped delay with the full jitter.
C22_Witness ==
  /\ call.fn = "calculate_next_retry_time"
  /\ call.args[1] = 10
  /\ call.result = <<call.args[2] + 1830>>

\* C23: a publish_schedule step for the time s appends exactly one pending task whose
\* scheduled_at is within 5 minutes of s and adds exactly one job, whose run_date is that
\* scheduled_at; for s = now + 10 min it lies in [now + 5 min, now + 15 min]; the task
\* is created whatever the rate check says.
C23_ScheduledWithinJitter ==
  [][\A a \in Accounts, s \in ScheduleChoices, j \in ScheduleJitters :
       publish_schedule(a, s, j) =>
         LET id == Len(tasks')
         IN /\ Len(tasks') = Len(tasks) + 1
            /\ SubSeq(tasks', 1, Len(tasks)) = tasks
            /\ tasks'[id].status = "pending"
            /\ s - 5 * 60 <= tasks'[id].scheduled_at
            /\ tasks'[id].scheduled_at <= s + 5 * 60
            /\ s = Now + 10 * 60 =>
                 /\ Now + 5 * 60 <= tasks'[id].scheduled_at
                 /\ tasks'[id].scheduled_at <= Now + 15 * 60
            /\ jobs \subseteq jobs'
            /\ Cardinality(jobs' \ jobs) = 1
            /\ \A job \in jobs' \ jobs :
                 job.task_id = id /\ job.run_date = tasks'[id].scheduled_at
            /\ out'.response = Response("publish_schedule", id, 200)]_vars

\* A task asked for 10 minutes ahead was created 15 minutes ahead, outside the active
\* window, where the rate check denies.
C23_Witness ==
  /\ out.response = Response("publish_schedule", 1, 200)
  /\ ~check_rate_limit(<<>>, accounts, tasks[1].account_id, tasks[1].created_at).allowed
  /\ tasks[1].scheduled_at = tasks[1].created_at + 15 * 60
  /\ \E job \in jobs : job.task_id = 1 /\ job.run_date = tasks[1].scheduled_at

\* C24: a publish_batch step of n items with interval m minutes at the instant t0
\* appends n pending tasks in item order, the i-th (from 0) with scheduled_at within
\* 5 minutes of t0 + i * m minutes and a job of that run_date; with m >= 10 the
\* scheduled_at of the new tasks do not decrease in item order.
C24_BatchWithinJitter ==
  [][\A a \in Accounts, n \in 1..MaxBatchRows, m \in BatchIntervals :
       \A jitter \in [1..n -> ScheduleJitters] :
         publish_batch(a, n, m, jitter) =>
           LET first == Len(tasks)
               t0 == Now
           IN /\ Len(tasks') = first + n
              /\ SubSeq(tasks', 1, first) = tasks
              /\ \A i \in 0..(n - 1) :
                   LET row == tasks'[first + i + 1]
                   IN /\ row.status = "pending"
                      /\ row.account_id = a
                      /\ t0 + i * m * 60 - 5 * 60 <= row.scheduled_at
                      /\ row.scheduled_at <= t0 + i * m * 60 + 5 * 60
                      /\ \E job \in jobs' : /\ job.task_id = first + i + 1
                                            /\ job.run_date = row.scheduled_at
              /\ m >= 10 =>
                   \A i \in 1..(n - 1) :
                     tasks'[first + i].scheduled_at <= tasks'[first + i + 1].scheduled_at]_vars

\* A batch of three items with interval 10 was created: the first 5 minutes late, the
\* second 5 minutes early, so both at the same time, and the third 5 minutes late.
C24_Witness ==
  /\ out.response = Response("publish_batch", 1, 200)
  /\ Len(tasks) = 3
  /\ tasks[1].scheduled_at = tasks[1].created_at + 5 * 60
  /\ tasks[2].scheduled_at = tasks[1].scheduled_at
  /\ tasks[3].scheduled_at = tasks[1].created_at + 25 * 60

\* The gate that denies first, in the order active-hours window, daily quota, minimum
\* spacing, or "OK" when all three pass.
FirstFailingGate(db, account_id, t) ==
  LET daily_limit == IF AccountDailyLimit(account_id) # 0
                     THEN AccountDailyLimit(account_id) ELSE DAILY_PUBLISH_LIMIT
      last_publish == LastPublish(db, account_id)
  IN IF ~(ACTIVE_TIME_START <= Hour(t) /\ Hour(t) < ACTIVE_TIME_END) THEN "window"
     ELSE IF SuccessesToday(db, account_id, t) >= daily_limit THEN "quota"
     ELSE IF last_publish # NoTime /\ t - last_publish < MIN_PUBLISH_INTERVAL THEN "spacing"
     ELSE "OK"

\* C25: an immediate publish for an existing account is allowed exactly when the
\* active-hours window, the daily quota and the minimum spacing all pass, and a
\* refusal carries the reason of the first of them that fails, in that order.
C25_AllowedIffAllGatesPass ==
  [][\A a \in DOMAIN accounts :
       publish_now(a) =>
         LET gate == FirstFailingGate(tasks, a, Now)
         IN /\ (out'.response.code = 200) <=> (gate = "OK")
            /\ gate # "OK" => out'.error = gate]_vars

\* C26: a turn of the pending sweep that dispatches _execute_task does so for a task
\* that is pending and due at that moment (scheduled_at absent or not after now) and
\* whose account the rate check allows; no step of the sweep changes a task.
C26_SweepDispatchesPendingDue ==
  [][/\ (SweepNext /\ execs' # execs) =>
          LET t == Head(sweep.todo)
          IN /\ tasks[t].status = "pending"
             /\ tasks[t].scheduled_at = NoTime \/ tasks[t].scheduled_at <= Now
             /\ check_rate_limit(tasks, accounts, tasks[t].account_id, Now).allowed
     /\ (SweepStart \/ SweepNext) => tasks' = tasks]_vars

\* Task t is pending and due, has no date job, and no _execute_task call for it is
\* in progress.
Waiting(t) ==
  /\ tasks[t].status = "pending"
  /\ tasks[t].scheduled_at = NoTime \/ tasks[t].scheduled_at <= Now
  /\ \A job \in jobs : job.task_id # t
  /\ \A x \in BagToSet(execs) : x.task_id # t

\* The pending sweep has dispatched _execute_task for task t.
DispatchedBySweep(t) ==
  \E x \in BagToSet(execs) : x.task_id = t /\ x.origin = "sweep"

\* C27: a task that is pending and due and has no timer is eventually dispatched by
\* the pending sweep, unless the rate check denies its account or it stops being
\* pending before a sweep comes to it.
C27_SweepRecoversMissedTrigger ==
  \A t \in 1..MaxSweepRows :
    (t \in TaskIds /\ Waiting(t)
       /\ check_rate_limit(tasks, accounts, tasks[t].account_id, Now).allowed)
      ~> (t \in TaskIds
            /\ (\/ DispatchedBySweep(t)
                \/ ~check_rate_limit(tasks, accounts, tasks[t].account_id, Now).allowed
                \/ tasks[t].status # "pending"))

\* The sweep has dispatched a task that has no date job and is still pending.
C27_Witness ==
  \E t \in TaskIds :
    /\ DispatchedBySweep(t)
    /\ tasks[t].status = "pending"
    /\ tasks[t].scheduled_at = NoTime
    /\ jobs = {}

\* C28: a heartbeat is yielded to a client only when its queue is empty, and the step
\* leaves the event bus as it is: no queue grows or shrinks, no subscriber is removed,
\* and the client has received the same events as before.
C28_HeartbeatOutsideQueue ==
  [][\A c \in Clients :
       (clients'[c].yielded = "heartbeat" /\ clients'[c] # clients[c]) =>
         /\ bus.queues[c] = <<>>
         /\ bus' = bus
         /\ clients'[c].last = clients[c].last
         /\ clients'[c].received = clients[c].received
         /\ \A d \in Clients \ {c} : clients'[d] = clients[d]]_vars

\* A client received an event, then a heartbeat, and is still subscribed while
\* another event waits in the queue of the other client.
C28_Witness ==
  \E c, d \in Clients :
    /\ clients[c].yielded = "heartbeat"
    /\ clients[c].received = 1
    /\ c \in Range(bus.subscribers)
    /\ bus.queues[c] = <<>>
    /\ d \in Range(bus.subscribers)
    /\ bus.queues[d] # <<>>

\* The Publisher call of the blocked task is still waiting and the task is running.
StillBlocked ==
  /\ tasks[BlockedTask].status = "running"
  /\ CopiesIn(BlockedExec, execs) = 1

\* C29: while the Publisher call of one task is blocked and the task stays running,
\* the pending task of the other account is dispatched and comes to success or failed.
C29_BlockedPublishStallsNothing ==
  /\ []StillBlocked
  /\ <>(StillBlocked /\ tasks[2].status \in {"success", "failed"})

\* The other account's task has been published while the first call is still blocked.
C29_Witness ==
  /\ StillBlocked
  /\ Len(tasks) = 2
  /\ tasks[2].status = "success"
  /\ tasks[2].account_id # tasks[BlockedTask].account_id

\* C30: a step that changes the row of a task that is running is a step of a call of
\* _execute_task for that task; no other step (pending sweep, retry sweep, cancel,
\* update) writes to a running task.
C30_RunningChangedByExecutionOnly ==
  [][\A t \in DOMAIN tasks :
       (tasks[t].status = "running" /\ tasks'[t] # tasks[t]) =>
         \E x \in BagToSet(execs) :
           /\ x.task_id = t
           /\ x.pc \in {"prepare", "publishing"}
           /\ CopiesIn(x, execs') < CopiesIn(x, execs)]_vars

\* C31: for every account, two calls of the Publisher start at least
\* MIN_PUBLISH_INTERVAL apart. A call that is inside the Publisher started no earlier
\* than its task was created, so when a call for another task of the same account
\* starts, that task was created at least MIN_PUBLISH_INTERVAL ago.
C31_PublishesSpacedPerAccount ==
  [][\A x \in BagToSet(execs) :
       StartsPublishing(x) =>
         \A y \in BagToSet(execs) :
           (/\ y.pc = "publishing"
            /\ y.task_id # x.task_id
            /\ tasks[y.task_id].account_id = tasks[x.task_id].account_id)
             => Now - tasks[y.task_id].created_at >= MIN_PUBLISH_INTERVAL]_vars

\* C32: when a call of _execute_task for a pending task comes to run at an instant
\* outside the active window, the attempt is deferred, not failed: the task is left
\* pending with scheduled_at at the next start of the window after now and a date job
\* for that instant; the Publisher is not called, and retry_count and error_message
\* stay as they were.
C32_DeferredOutsideWindow ==
  [][\A x \in BagToSet(execs) :
       (/\ x.pc = "prepare"
        /\ CopiesIn(x, execs') < CopiesIn(x, execs)
        /\ ~(ACTIVE_TIME_START <= Hour(Now) /\ Hour(Now) < ACTIVE_TIME_END))
         => LET t == x.task_id
                at == tasks'[t].scheduled_at
            IN /\ tasks'[t].status = "pending"
               /\ at > Now
               /\ at - Now <= 86400
               /\ at % 86400 = ACTIVE_TIME_START * 3600
               /\ \E j \in jobs' : j.task_id = t /\ j.run_date = at
               /\ tasks'[t].retry_count = tasks[t].retry_count
               /\ tasks'[t].error_message = tasks[t].error_message
               /\ ~StartsPublishing(x)]_vars

\* C33: the Publisher is never called for a task before the scheduled_at the task has
\* at that moment, also when PUT /tasks/{id} has moved scheduled_at to a later instant
\* while the date job of the earlier instant is still registered.
C33_NoPublishBeforeScheduledAt ==
  [][\A x \in BagToSet(execs) :
       StartsPublishing(x)
         => \/ tasks[x.task_id].scheduled_at = NoTime
            \/ tasks[x.task_id].scheduled_at <= Now]_vars

\* C34: every call of _execute_task that reached the Publisher publishes, in the step
\* that ends it, exactly one task_update event, with status success or failed, and that
\* status is the status the task's row has when the call has ended, also when the
\* commit that follows the event fails.
C34_OneOutcomeEventMatchesStatus ==
  [][\A x \in BagToSet(execs) :
       (x.pc = "publishing" /\ CopiesIn(x, execs') < CopiesIn(x, execs))
         => /\ Len(out'.events) = 1
            /\ out'.events[1].type = "task_update"
            /\ out'.events[1].task_id = x.task_id
            /\ out'.events[1].status \in {"success", "failed"}
            /\ out'.events[1].status = tasks'[x.task_id].status]_vars

\* The queue holds the last Len(queue) messages published up to the upto-th, each
\* once and in the order of their publication.
Consecutive(queue, upto) ==
  \A i \in 1..Len(queue) : queue[i].n = upto - Len(queue) + i

\* C35: a publish appends its message once to the queue of every subscriber it does
\* not drop and puts nothing in the queue of a client that was dropped or has
\* unsubscribed; a client takes the oldest message of its queue, whether or not it is
\* still subscribed; so the queue of a subscriber holds the messages published since
\* the one it took last, each once and in order, with none missing.
C35_DeliveredExactlyOnce ==
  [][\A c \in Clients :
       /\ bus'.published # bus.published
            => IF c \in Range(bus.subscribers) /\ c \in Range(bus'.subscribers)
               THEN bus'.queues[c] = Append(bus.queues[c], Message(bus'.published))
               ELSE bus'.queues[c] = bus.queues[c]
       /\ clients'[c].received = clients[c].received + 1
            => /\ bus.queues[c] # <<>>
               /\ clients'[c].last = bus.queues[c][1].n
               /\ bus'.queues[c] = Tail(bus.queues[c])
       /\ c \in Range(bus'.subscribers)
            => /\ Consecutive(bus'.queues[c], bus'.published)
               /\ clients'[c].received > 0
                    => clients'[c].last = bus'.published - Len(bus'.queues[c])]_vars

\* A client was dropped by the publish of message 257, with messages 1 to 256 in its
\* queue; message 258 was published after that; the client has since taken message 1
\* from its queue, which holds 2 to 256.
C35_Witness ==
  \E c \in Clients :
    /\ clients[c].pc = "open"
    /\ c \notin Range(bus.subscribers)
    /\ bus.published = QUEUE_MAXSIZE + 2
    /\ clients[c].last = 1
    /\ Len(bus.queues[c]) = QUEUE_MAXSIZE - 1
    /\ bus.queues[c][1].n = 2
    /\ bus.queues[c][QUEUE_MAXSIZE - 1].n = QUEUE_MAXSIZE

====
